---- MODULE Spec2Model ----
(***************************************************************************)
(* Pollenpulsen: the API client (api.py), the data coordinator, its setup  *)
(* and its entities (sensor.py), and the configuration forms               *)
(* (config_flow.py), as a state machine.                                   *)
(*                                                                         *)
(* Python dicts are objects: a dict that is stored in two places is one    *)
(* object with two references.  The model keeps the dicts that are shared  *)
(* (pollen-type catalogs, level-definition catalogs, snapshots) in heaps,  *)
(* sequences of values indexed by reference, so that "assign a new dict"   *)
(* and "update the dict in place" are different things.                    *)
(***************************************************************************)
EXTENDS Integers, Sequences, FiniteSets, TLC

(***************************************************************************)
(* Bounds of the model.                                                    *)
(***************************************************************************)
MaxCycles == 3
MaxCalls == 4

(***************************************************************************)
(* State.                                                                  *)
(*   ptHeap, ldHeap, snapHeap   the dict objects: pollen-type catalogs,    *)
(*                              level-definition catalogs, snapshots; a    *)
(*                              reference is an index, 0 is "no object"    *)
(*   _regions_cache             the client's region catalog                *)
(*   _pollen_types_cache        the client's pollen-type catalog (ptHeap)  *)
(*   _last_successful_data      the coordinator's stored snapshot          *)
(*   _level_definitions         the coordinator's catalog (ldHeap)         *)
(*   _pollen_types              the coordinator's catalog (ptHeap), 0      *)
(*                              while the attribute is not set             *)
(*   data, last_update_success  what DataUpdateCoordinator publishes       *)
(*   pc                         where setup and the refresh cycle stand    *)
(*   cycles, calls              refresh cycles and client calls so far     *)
(*   cycleResult, fcOutcome, fcResp, reqs, writes, published, lastCall     *)
(*                              history: how the last finished cycle       *)
(*                              ended, what its forecast fetch raised and  *)
(*                              received, the requests and the snapshot    *)
(*                              writes of the cycle under way, the         *)
(*                              snapshots as published, the last direct    *)
(*                              client call                                *)
(*   requests, regionsReturned  history of the direct client calls: the    *)
(*                              requests issued per resource, and the      *)
(*                              catalog the last get_regions call that     *)
(*                              returned gave (none yet: empty sequence)   *)
(*   entry                      the config entry: whether it exists, the   *)
(*                              scan interval in its data and in its       *)
(*                              options, and the pollen ids in its data    *)
(*   update_interval            the coordinator's update_interval in       *)
(*                              hours, NoInterval while there is no        *)
(*                              coordinator                                *)
(*   cancelled                  history: the host has cancelled a cycle    *)
(*   entities                   the entities async_setup_entry has handed  *)
(*                              to async_add_entities, in the list's order *)
(***************************************************************************)
VARIABLES ptHeap, ldHeap, snapHeap, _regions_cache, _pollen_types_cache,
          _last_successful_data, _level_definitions, _pollen_types,
          data, last_update_success, pc, cycles, calls,
          cycleResult, fcOutcome, fcResp, reqs, writes, published, lastCall,
          requests, regionsReturned, entry, update_interval, cancelled, entities

vars == <<ptHeap, ldHeap, snapHeap, _regions_cache, _pollen_types_cache,
          _last_successful_data, _level_definitions, _pollen_types,
          data, last_update_success, pc, cycles, calls,
          cycleResult, fcOutcome, fcResp, reqs, writes, published, lastCall,
          requests, regionsReturned, entry, update_interval, cancelled, entities>>

configVars == <<entry, update_interval>>

callVars == <<calls, lastCall, requests, regionsReturned>>

coordVars == <<ldHeap, snapHeap, _last_successful_data, _level_definitions,
               _pollen_types, data, last_update_success>>

cycleVars == <<pc, cycles, cycleResult, fcOutcome, fcResp, reqs, writes, published>>

(***************************************************************************)
(* Values.                                                                 *)
(***************************************************************************)
EmptyMap == [k \in {} |-> 0]

Missing == "<missing>"
MissingLevel == -2
NoLevel == -1

Truthy(d) == d # EmptyMap

MapPut(d, k, v) == [x \in (DOMAIN d) \cup {k} |-> IF x = k THEN v ELSE d[x]]

MapGet(d, k, default) == IF k \in DOMAIN d THEN d[k] ELSE default

Last(s) == s[Len(s)]

(***************************************************************************)
(* HTTP responses.  kind is "timeout", "connerr" or "http"; a response of  *)
(* kind "http" has a status and a decoded JSON body.  A body has a form:   *)
(* "null" (JSON null), "empty" ({}), "noitems" (an object without the      *)
(* items key) or "items" (an object with an items list).                   *)
(***************************************************************************)
Timeout == [kind |-> "timeout", status |-> 0, body |-> [form |-> "null", items |-> <<>>]]

ConnError == [kind |-> "connerr", status |-> 0, body |-> [form |-> "null", items |-> <<>>]]

Http(status, form, items) ==
    [kind |-> "http", status |-> status, body |-> [form |-> form, items |-> items]]

(***************************************************************************)
(* {item["id"]: item["name"] for item in items}: a KeyError when an item   *)
(* lacks a key, later items overwrite earlier ones.                        *)
(***************************************************************************)
HasKeyError(items) ==
    \E i \in 1..Len(items) : items[i].id = Missing \/ items[i].name = Missing

RECURSIVE DictFromItems(_)
DictFromItems(items) ==
    IF items = <<>> THEN EmptyMap
    ELSE LET n == Len(items)
         IN  MapPut(DictFromItems(SubSeq(items, 1, n - 1)), items[n].id, items[n].name)

(***************************************************************************)
(* Exceptions, by class.                                                   *)
(***************************************************************************)
NoExc == "none"

ApiError == "PollenPulsenApiClientError"

ClientError == "aiohttp.ClientError"

TimeoutError == "asyncio.TimeoutError"

UpdateFailed == "UpdateFailed"

CancelledError == "CancelledError"

(***************************************************************************)
(* api.py, get_pollen_types after the cache check: what the request's      *)
(* response turns into.  err names the raise statement that was reached.   *)
(***************************************************************************)
PollenTypesRaise(exc, err) == [exc |-> exc, err |-> err, catalog |-> EmptyMap]

ParsePollenTypes(resp) ==
    IF resp.kind = "connerr" THEN PollenTypesRaise(ClientError, "conn")
    ELSE IF resp.kind = "timeout" THEN PollenTypesRaise(TimeoutError, "timeout")
    ELSE IF resp.status >= 400 THEN PollenTypesRaise(ApiError, "http")
    ELSE IF resp.body.form \in {"null", "empty", "noitems"}
         THEN PollenTypesRaise(ApiError, "invalid")
    ELSE IF HasKeyError(resp.body.items) THEN PollenTypesRaise(ApiError, "unexpected")
    ELSE IF ~Truthy(DictFromItems(resp.body.items))
         THEN PollenTypesRaise(ApiError, "no_pollen_types")
    ELSE [exc |-> NoExc, err |-> "none", catalog |-> DictFromItems(resp.body.items)]

(***************************************************************************)
(* self._pollen_types_cache = pollen_types: the cache refers to the dict   *)
(* the comprehension built, a new object.                                  *)
(***************************************************************************)
StorePollenTypesNot(heap, ref, catalog) == [heap |-> heap, ref |-> ref]

StorePollenTypes(heap, ref, catalog) ==
    [heap |-> Append(heap, catalog), ref |-> Len(heap) + 1]

(***************************************************************************)
(* The raise statements and the except clauses of get_pollen_types assign  *)
(* nothing: the cache is the object it was.  The variant is an except      *)
(* clause that resets the cache to a new empty dict.                       *)
(***************************************************************************)
ClearPollenTypes(heap, ref) ==
    [heap |-> Append(heap, EmptyMap), ref |-> Len(heap) + 1]

KeepPollenTypes(heap, ref) == [heap |-> heap, ref |-> ref]

(***************************************************************************)
(* api.py, get_regions after the cache check.  cache tells whether the     *)
(* result is stored in self._regions_cache.                                *)
(***************************************************************************)
RegionsRaise(err) == [exc |-> ApiError, err |-> err, catalog |-> EmptyMap, cache |-> FALSE]

RegionsReturn(catalog, cache) ==
    [exc |-> NoExc, err |-> "none", catalog |-> catalog, cache |-> cache]

RegionsRaiseOnBadStatus == RegionsRaise("http")

RegionsOnBadStatus == RegionsReturn(EmptyMap, FALSE)

CacheNever(regions) == FALSE

RegionsCached(regions) == Truthy(regions)

ParseRegions(resp) ==
    IF resp.kind = "timeout" THEN RegionsRaise("timeout")
    ELSE IF resp.kind = "connerr" THEN RegionsRaise("conn")
    ELSE IF resp.status # 200 THEN RegionsOnBadStatus
    ELSE IF resp.body.form = "null" THEN RegionsRaise("parse")
    ELSE IF resp.body.form \in {"empty", "noitems"} THEN RegionsReturn(EmptyMap, FALSE)
    ELSE IF HasKeyError(resp.body.items) THEN RegionsRaise("parse")
    ELSE LET regions == DictFromItems(resp.body.items)
         IN  RegionsReturn(regions, RegionsCached(regions))

(***************************************************************************)
(* api.py, get_forecasts.  A time field is a sequence of tokens, the date  *)
(* first; "today in time" is substring containment.                        *)
(***************************************************************************)
Contains(sub, s) ==
    \E i \in 0..(Len(s) - Len(sub)) : SubSeq(s, i + 1, i + Len(sub)) = sub

Today == <<"D1">>

(***************************************************************************)
(* if today in level_data.get("time", ""): the variant takes every entry,  *)
(* whatever its date.                                                      *)
(***************************************************************************)
EntryAnyDay(level_data, today) == TRUE

EntryIsToday(level_data, today) == Contains(today, level_data.time)

(***************************************************************************)
(* result["pollen_levels"][pollen_id] = level: a later assignment to the   *)
(* same key replaces the earlier.  The variant keeps the first.            *)
(***************************************************************************)
SetDefaultLevel(levels, pollen_id, level) ==
    IF pollen_id \in DOMAIN levels THEN levels ELSE MapPut(levels, pollen_id, level)

SetLevel(levels, pollen_id, level) == MapPut(levels, pollen_id, level)

RECURSIVE TodayLevels(_, _, _)
TodayLevels(series, today, levels) ==
    IF series = <<>> THEN levels
    ELSE LET n == Len(series)
             e == series[n]
             before == TodayLevels(SubSeq(series, 1, n - 1), today, levels)
         IN  IF EntryIsToday(e, today) /\ e.pollenId # "" /\ e.level # NoLevel
             THEN SetLevel(before, e.pollenId, e.level)
             ELSE before

(***************************************************************************)
(* A dict keeps its keys in the order of their first assignment:           *)
(* pollen_ids is that order for result["pollen_levels"].                   *)
(***************************************************************************)
RECURSIVE TodayKeys(_, _)
TodayKeys(series, today) ==
    IF series = <<>> THEN <<>>
    ELSE LET n == Len(series)
             e == series[n]
             before == TodayKeys(SubSeq(series, 1, n - 1), today)
         IN  IF /\ EntryIsToday(e, today) /\ e.pollenId # "" /\ e.level # NoLevel
                /\ \A i \in 1..Len(before) : before[i] # e.pollenId
             THEN Append(before, e.pollenId)
             ELSE before

PreviousPollenLevels == snapHeap[_last_successful_data].pollen_levels

NewPollenLevels == EmptyMap

ForecastResult(item) ==
    [start_date |-> item.startDate,
     end_date |-> item.endDate,
     text |-> item.text,
     pollen_levels |->
         IF item.has_series
         THEN TodayLevels(item.levelSeries, Today, NewPollenLevels)
         ELSE NewPollenLevels,
     pollen_ids |-> IF item.has_series THEN TodayKeys(item.levelSeries, Today) ELSE <<>>]

NoResult ==
    [start_date |-> "", end_date |-> "", text |-> "", pollen_levels |-> EmptyMap,
     pollen_ids |-> <<>>]

ForecastRaise(exc, err, status) ==
    [exc |-> exc, err |-> err, status |-> status, result |-> NoResult]

(***************************************************************************)
(* if response.status >= 400: the status is tested before the body is      *)
(* read as JSON.  The variant lets client errors (4xx) through.            *)
(***************************************************************************)
IsServerError(status) == status >= 500

IsHttpError(status) == status >= 400

ParseForecast(resp) ==
    IF resp.kind = "connerr" THEN ForecastRaise(ClientError, "conn", 0)
    ELSE IF resp.kind = "timeout" THEN ForecastRaise(TimeoutError, "timeout", 0)
    ELSE IF IsHttpError(resp.status) THEN ForecastRaise(ApiError, "http", resp.status)
    ELSE IF resp.body.form \in {"null", "empty"} THEN ForecastRaise(ApiError, "empty", 0)
    ELSE IF resp.body.form = "noitems" \/ resp.body.items = <<>>
         THEN ForecastRaise(ApiError, "no_items", 0)
    ELSE IF ~resp.body.items[1].is_object THEN ForecastRaise(ApiError, "unexpected", 0)
    ELSE [exc |-> NoExc, err |-> "none", status |-> 0,
          result |-> ForecastResult(resp.body.items[1])]

(***************************************************************************)
(* sensor.py, _async_update_data, the level definitions: what the response *)
(* turns into.  exc is the exception the inner try block ends with.        *)
(***************************************************************************)
HasLevelKeyError(items) ==
    \E i \in 1..Len(items) : items[i].level = MissingLevel \/ items[i].name = Missing

RECURSIVE LevelDictFromItems(_)
LevelDictFromItems(items) ==
    IF items = <<>> THEN EmptyMap
    ELSE LET n == Len(items)
         IN  MapPut(LevelDictFromItems(SubSeq(items, 1, n - 1)),
                    items[n].level, items[n].name)

LevelDefinitionsSkip(exc) == [exc |-> exc, assign |-> FALSE, catalog |-> EmptyMap]

ParseLevelDefinitions(resp) ==
    IF resp.kind = "timeout" THEN LevelDefinitionsSkip(TimeoutError)
    ELSE IF resp.kind = "connerr" THEN LevelDefinitionsSkip(ClientError)
    ELSE IF resp.status # 200 THEN LevelDefinitionsSkip(NoExc)
    ELSE IF resp.body.form = "null" THEN LevelDefinitionsSkip("TypeError")
    ELSE IF resp.body.form \in {"empty", "noitems"} THEN LevelDefinitionsSkip(NoExc)
    ELSE IF HasLevelKeyError(resp.body.items) THEN LevelDefinitionsSkip("KeyError")
    ELSE [exc |-> NoExc, assign |-> TRUE, catalog |-> LevelDictFromItems(resp.body.items)]

(***************************************************************************)
(* self._level_definitions = {...}: the attribute refers to a new dict.    *)
(* The in-place variant is what self._level_definitions.update(...) would  *)
(* do.                                                                     *)
(***************************************************************************)
StoreLevelDefinitionsInPlace(heap, ref, catalog) ==
    [heap |-> [heap EXCEPT ![ref] = catalog], ref |-> ref]

StoreLevelDefinitions(heap, ref, catalog) ==
    [heap |-> Append(heap, catalog), ref |-> Len(heap) + 1]

(***************************************************************************)
(* The except clauses of the two inner try blocks and of the outer one:    *)
(* except Exception.  asyncio.CancelledError derives from BaseException,   *)
(* not from Exception.  The variant of the outer clause is a bare except.  *)
(***************************************************************************)
IsException(exc) == exc # CancelledError

NetworkErrorsOnly(exc) == exc \in {TimeoutError, ClientError}

LevelDefinitionsErrorCaught(exc) == IsException(exc)

PollenTypesErrorCaught(exc) == IsException(exc)

CatchesBaseException(exc) == TRUE

UpdateErrorCaught(exc) == IsException(exc)

(***************************************************************************)
(* The responses the upstream API is made to give.                         *)
(***************************************************************************)
Item(id, name) == [id |-> id, name |-> name]

BadItems == <<Item("p1", "Bjork"), Item("p2", Missing)>>

RegionsResponses ==
    {Timeout, ConnError,
     Http(404, "null", <<>>),
     Http(204, "items", <<Item("17", "Stockholm")>>),
     Http(200, "null", <<>>),
     Http(200, "noitems", <<>>),
     Http(200, "items", <<>>),
     Http(200, "items", BadItems),
     Http(200, "items", <<Item("17", "Stockholm")>>),
     Http(200, "items", <<Item("17", "Stockholm"), Item("18", "Umea")>>)}

PollenTypesResponses ==
    {Timeout, ConnError,
     Http(500, "items", <<Item("p1", "Bjork")>>),
     Http(200, "null", <<>>),
     Http(200, "noitems", <<>>),
     Http(200, "items", <<>>),
     Http(200, "items", BadItems),
     Http(200, "items", <<Item("p1", "Bjork")>>),
     Http(200, "items", <<Item("p1", "Bjork"), Item("p2", "Gras")>>)}

LevelItem(level, name) == [level |-> level, name |-> name]

LevelDefinitionsResponses ==
    {Timeout, ConnError,
     Http(500, "null", <<>>),
     Http(200, "null", <<>>),
     Http(200, "noitems", <<>>),
     Http(200, "items", <<>>),
     Http(200, "items", <<LevelItem(MissingLevel, "Inga")>>),
     Http(200, "items", <<LevelItem(0, "Inga"), LevelItem(3, "Hoga")>>)}

Entry(time, pollenId, level) == [time |-> time, pollenId |-> pollenId, level |-> level]

ForecastItem(start, end, text, series) ==
    [is_object |-> TRUE, startDate |-> start, endDate |-> end, text |-> text,
     has_series |-> TRUE, levelSeries |-> series]

BadForecastItem ==
    [is_object |-> FALSE, startDate |-> "", endDate |-> "", text |-> "",
     has_series |-> FALSE, levelSeries |-> <<>>]

ItemA ==
    ForecastItem("A1", "A2", "textA",
                 <<Entry(<<"D1", "T">>, "p2", 1), Entry(<<"D1", "T">>, "p1", 3),
                   Entry(<<"D2", "T">>, "p2", 0)>>)

ItemB ==
    ForecastItem("B1", "B2", "textB",
                 <<Entry(<<"D0", "T">>, "p1", 3), Entry(<<"D1", "T">>, "p2", 2)>>)

ItemC == ForecastItem("C1", "C2", "", <<>>)

ForecastResponses ==
    {Timeout, ConnError,
     Http(503, "items", <<ItemA>>),
     Http(404, "null", <<>>),
     Http(200, "null", <<>>),
     Http(200, "noitems", <<>>),
     Http(200, "items", <<>>),
     Http(200, "items", <<BadForecastItem>>),
     Http(200, "items", <<ItemA>>),
     Http(200, "items", <<ItemB, ItemA>>),
     Http(200, "items", <<ItemC>>)}

NoResponse == [kind |-> "none", status |-> 0, body |-> [form |-> "null", items |-> <<>>]]

(***************************************************************************)
(* A snapshot is the dict _async_update_data publishes: the forecast       *)
(* result and the two catalogs it refers to.  EmptyData is the {} the      *)
(* coordinator starts with; a dict is truthy when it has a key.            *)
(***************************************************************************)
EmptyData ==
    [populated |-> FALSE, start_date |-> "", end_date |-> "", text |-> "",
     pollen_levels |-> EmptyMap, pollen_ids |-> <<>>,
     level_definitions |-> 0, pollen_types |-> 0]

DataTruthy(d) == d.populated

MergeCatalogs(result, ld, pt) ==
    [populated |-> TRUE, start_date |-> result.start_date, end_date |-> result.end_date,
     text |-> result.text, pollen_levels |-> result.pollen_levels,
     pollen_ids |-> result.pollen_ids,
     level_definitions |-> ld, pollen_types |-> pt]

(***************************************************************************)
(* What a reader that follows the references of snapshot ref gets.         *)
(***************************************************************************)
Deref(heap, ref) == IF ref = 0 THEN EmptyMap ELSE heap[ref]

Contents(ref) ==
    [forecast |-> [start_date |-> snapHeap[ref].start_date,
                   end_date |-> snapHeap[ref].end_date,
                   text |-> snapHeap[ref].text,
                   pollen_levels |-> snapHeap[ref].pollen_levels,
                   pollen_ids |-> snapHeap[ref].pollen_ids],
     level_definitions |-> Deref(ldHeap, snapHeap[ref].level_definitions),
     pollen_types |-> Deref(ptHeap, snapHeap[ref].pollen_types)]

NoCall ==
    [op |-> "none", resp |-> NoResponse, requested |-> FALSE, exc |-> NoExc,
     err |-> "none", status |-> 0, ret |-> EmptyMap, forecast |-> NoResult]

(***************************************************************************)
(* The config entry.  The forms take the scan interval as an optional      *)
(* whole number of hours from 1 to 24 with a default; a value outside the  *)
(* range is refused and the form is shown again.  async_step_user stores   *)
(* what the form gave as the entry's data; the options form stores it as   *)
(* the entry's options.  NoInterval is a key that is absent.               *)
(***************************************************************************)
DEFAULT_SCAN_INTERVAL == 3

MinScanInterval == 1

MaxScanInterval == 24

NoInterval == -1

FormInputs == {NoInterval} \cup (MinScanInterval - 1)..(MaxScanInterval + 1)

ValidateInterval(input, default) ==
    IF input = NoInterval THEN [ok |-> TRUE, value |-> default]
    ELSE IF input \in MinScanInterval..MaxScanInterval THEN [ok |-> TRUE, value |-> input]
    ELSE [ok |-> FALSE, value |-> NoInterval]

NoEntry ==
    [exists |-> FALSE, data |-> NoInterval, options |-> NoInterval,
     pollen_types |-> <<>>]

(***************************************************************************)
(* sensor.py line 48: entry.data.get(CONF_POLLEN_TYPES, []), the list of   *)
(* selected pollen ids; an entry made by async_step_user has none.         *)
(***************************************************************************)
Selections == {<<>>, <<"p2">>, <<"p3", "p1">>, <<"p1", "p2", "p3">>}

DefaultEntry ==
    [exists |-> TRUE, data |-> DEFAULT_SCAN_INTERVAL, options |-> NoInterval,
     pollen_types |-> <<>>]

(***************************************************************************)
(* sensor.py line 49: the interval the coordinator is created with.        *)
(***************************************************************************)
ScanInterval(config_entry) ==
    IF config_entry.options # NoInterval
    THEN config_entry.options
    ELSE DEFAULT_SCAN_INTERVAL

(***************************************************************************)
(* Constructed is the state of a client and a coordinator that have just   *)
(* been created.  Init is async_setup_entry entered for an entry made with *)
(* the defaults; InitConfig is the integration before it is configured.    *)
(***************************************************************************)
Constructed ==
    /\ ptHeap = <<EmptyMap>>
    /\ ldHeap = <<EmptyMap>>
    /\ snapHeap = <<EmptyData>>
    /\ _regions_cache = EmptyMap
    /\ _pollen_types_cache = 1
    /\ _last_successful_data = 1
    /\ _level_definitions = 1
    /\ _pollen_types = 0
    /\ data = 0
    /\ last_update_success = TRUE
    /\ cycles = 0
    /\ calls = 0
    /\ cycleResult = "none"
    /\ fcOutcome = "never"
    /\ fcResp = NoResponse
    /\ reqs = <<>>
    /\ writes = 0
    /\ published = <<>>
    /\ lastCall = NoCall
    /\ requests = [r \in {"regions", "pollen_types", "forecasts"} |-> 0]
    /\ regionsReturned = <<>>
    /\ update_interval = NoInterval
    /\ cancelled = FALSE
    /\ entities = <<>>

Init ==
    /\ Constructed
    /\ pc = "setup_regions"
    /\ entry = [DefaultEntry EXCEPT !.pollen_types = <<"p1", "p2", "p3">>]

InitSetup ==
    /\ Constructed
    /\ pc = "setup_regions"
    /\ entry \in {[DefaultEntry EXCEPT !.pollen_types = s] : s \in Selections}

InitConfig ==
    /\ Constructed
    /\ pc = "no_entry"
    /\ entry = NoEntry

(***************************************************************************)
(* api.py: the three client calls, each from call to return: whether a     *)
(* request was issued, what was raised or returned, and the client's       *)
(* caches afterwards.                                                      *)
(***************************************************************************)
GetRegions(resp) ==
    IF Truthy(_regions_cache)
    THEN [requested |-> FALSE, exc |-> NoExc, err |-> "none", ret |-> _regions_cache,
          cache |-> _regions_cache]
    ELSE LET o == ParseRegions(resp)
         IN  [requested |-> TRUE, exc |-> o.exc, err |-> o.err, ret |-> o.catalog,
              cache |-> IF o.cache THEN o.catalog ELSE _regions_cache]

GetPollenTypes(resp) ==
    IF Truthy(ptHeap[_pollen_types_cache])
    THEN [requested |-> FALSE, exc |-> NoExc, err |-> "none",
          ref |-> _pollen_types_cache, heap |-> ptHeap, cache |-> _pollen_types_cache]
    ELSE LET o == ParsePollenTypes(resp)
             st == StorePollenTypes(ptHeap, _pollen_types_cache, o.catalog)
         IN  IF o.exc = NoExc
             THEN [requested |-> TRUE, exc |-> NoExc, err |-> "none",
                   ref |-> st.ref, heap |-> st.heap, cache |-> st.ref]
             ELSE LET kept == KeepPollenTypes(ptHeap, _pollen_types_cache)
                  IN  [requested |-> TRUE, exc |-> o.exc, err |-> o.err,
                       ref |-> 0, heap |-> kept.heap, cache |-> kept.ref]

GetForecasts(resp) ==
    LET o == ParseForecast(resp)
    IN  [requested |-> TRUE, exc |-> o.exc, err |-> o.err, status |-> o.status,
         result |-> o.result]

(***************************************************************************)
(* A caller that uses one client directly, any call in any order.          *)
(***************************************************************************)
Issued(resource, requested) ==
    [requests EXCEPT ![resource] = IF requested THEN @ + 1 ELSE @]

get_regions ==
    /\ calls < MaxCalls
    /\ \E resp \in RegionsResponses :
          LET r == GetRegions(resp)
          IN  /\ _regions_cache' = r.cache
              /\ lastCall' = [op |-> "get_regions", resp |-> resp,
                              requested |-> r.requested, exc |-> r.exc, err |-> r.err,
                              status |-> 0, ret |-> r.ret, forecast |-> NoResult]
              /\ requests' = Issued("regions", r.requested)
              /\ regionsReturned' = IF r.exc = NoExc THEN <<r.ret>> ELSE regionsReturned
    /\ calls' = calls + 1
    /\ UNCHANGED <<ptHeap, _pollen_types_cache>>
    /\ UNCHANGED coordVars
    /\ UNCHANGED cycleVars
    /\ UNCHANGED <<configVars, cancelled, entities>>

get_pollen_types ==
    /\ calls < MaxCalls
    /\ \E resp \in PollenTypesResponses :
          LET r == GetPollenTypes(resp)
          IN  /\ ptHeap' = r.heap
              /\ _pollen_types_cache' = r.cache
              /\ lastCall' = [op |-> "get_pollen_types", resp |-> resp,
                              requested |-> r.requested, exc |-> r.exc, err |-> r.err,
                              status |-> 0, ret |-> Deref(r.heap, r.ref),
                              forecast |-> NoResult]
              /\ requests' = Issued("pollen_types", r.requested)
    /\ calls' = calls + 1
    /\ UNCHANGED <<_regions_cache, regionsReturned>>
    /\ UNCHANGED coordVars
    /\ UNCHANGED cycleVars
    /\ UNCHANGED <<configVars, cancelled, entities>>

get_forecasts ==
    /\ calls < MaxCalls
    /\ \E resp \in ForecastResponses :
          LET r == GetForecasts(resp)
          IN  /\ lastCall' = [op |-> "get_forecasts", resp |-> resp,
                              requested |-> r.requested, exc |-> r.exc, err |-> r.err,
                              status |-> r.status, ret |-> EmptyMap,
                              forecast |-> r.result]
              /\ requests' = Issued("forecasts", r.requested)
    /\ calls' = calls + 1
    /\ UNCHANGED <<ptHeap, _regions_cache, _pollen_types_cache, regionsReturned>>
    /\ UNCHANGED coordVars
    /\ UNCHANGED cycleVars
    /\ UNCHANGED <<configVars, cancelled, entities>>

NextClient == get_regions \/ get_pollen_types \/ get_forecasts

SpecClient == Init /\ [][NextClient]_vars

(***************************************************************************)
(* get_forecasts on a well-formed response, over every levelSeries of at   *)
(* most MaxSeries entries: a time is today's date or another day's, with   *)
(* the date first or later in the string, or missing; a pollenId is        *)
(* present or missing (""); a level is a number or null (NoLevel).         *)
(***************************************************************************)
MaxSeries == 2

Times == {<<"D1", "T">>, <<"D0", "T">>, <<"T", "D1">>, <<>>}

SeriesEntries ==
    {Entry(t, p, l) : t \in Times, p \in {"p1", "p2", ""}, l \in {NoLevel, 0, 3}}

AllSeries == UNION {[1..n -> SeriesEntries] : n \in 0..MaxSeries}

NoSeriesItem ==
    [is_object |-> TRUE, startDate |-> "S1", endDate |-> "S2", text |-> "textS",
     has_series |-> FALSE, levelSeries |-> <<>>]

SeriesItems == {ForecastItem("S1", "S2", "textS", s) : s \in AllSeries} \cup {NoSeriesItem}

get_forecasts_series ==
    /\ calls = 0
    /\ \E item \in SeriesItems :
          LET resp == Http(200, "items", <<item>>)
              r == GetForecasts(resp)
          IN  /\ lastCall' = [op |-> "get_forecasts", resp |-> resp,
                              requested |-> r.requested, exc |-> r.exc, err |-> r.err,
                              status |-> r.status, ret |-> EmptyMap,
                              forecast |-> r.result]
              /\ requests' = Issued("forecasts", r.requested)
    /\ calls' = calls + 1
    /\ UNCHANGED <<ptHeap, _regions_cache, _pollen_types_cache, regionsReturned>>
    /\ UNCHANGED coordVars
    /\ UNCHANGED cycleVars
    /\ UNCHANGED <<configVars, cancelled, entities>>

NextFilter == get_forecasts_series

SpecFilter == Init /\ [][NextFilter]_vars

(***************************************************************************)
(* sensor.py, async_setup_entry: the client is created, the regions and    *)
(* the pollen types are fetched (any error is logged), the coordinator is  *)
(* created and its first refresh is awaited.                               *)
(***************************************************************************)
SetupGetRegions ==
    /\ pc = "setup_regions"
    /\ \E resp \in RegionsResponses : _regions_cache' = GetRegions(resp).cache
    /\ pc' = "setup_types"
    /\ UNCHANGED <<ptHeap, _pollen_types_cache, callVars>>
    /\ UNCHANGED coordVars
    /\ UNCHANGED <<cycles, cycleResult, fcOutcome, fcResp, reqs, writes, published>>
    /\ UNCHANGED <<configVars, cancelled, entities>>

SetupGetPollenTypes ==
    /\ pc = "setup_types"
    /\ \E resp \in PollenTypesResponses :
          /\ ptHeap' = GetPollenTypes(resp).heap
          /\ _pollen_types_cache' = GetPollenTypes(resp).cache
    /\ update_interval' = ScanInterval(entry)
    /\ pc' = "idle"
    /\ UNCHANGED <<_regions_cache, callVars>>
    /\ UNCHANGED coordVars
    /\ UNCHANGED <<cycles, cycleResult, fcOutcome, fcResp, reqs, writes, published>>
    /\ UNCHANGED <<entry, cancelled, entities>>

(***************************************************************************)
(* config_flow.py.  async_step_user, called with the form's input,         *)
(* creates the entry and the host sets it up.  The options form            *)
(* (async_step_init) stores its input as the entry's options; the update   *)
(* listener then reloads the entry: the client and the coordinator are     *)
(* dropped and async_setup_entry runs again.                               *)
(***************************************************************************)
async_step_user ==
    /\ pc = "no_entry"
    /\ \E input \in FormInputs :
          LET v == ValidateInterval(input, DEFAULT_SCAN_INTERVAL)
          IN  /\ v.ok
              /\ entry' = [exists |-> TRUE, data |-> v.value, options |-> NoInterval,
                         pollen_types |-> <<>>]
    /\ pc' = "setup_regions"
    /\ UNCHANGED <<ptHeap, _regions_cache, _pollen_types_cache, callVars>>
    /\ UNCHANGED coordVars
    /\ UNCHANGED <<cycles, cycleResult, fcOutcome, fcResp, reqs, writes, published>>
    /\ UNCHANGED <<update_interval, cancelled, entities>>

async_step_init ==
    /\ pc = "idle"
    /\ entry.exists
    /\ \E input \in FormInputs :
          LET v == ValidateInterval(input, ScanInterval(entry))
          IN  /\ v.ok
              /\ entry' = [entry EXCEPT !.options = v.value]
    /\ pc' = "setup_regions"
    /\ ptHeap' = <<EmptyMap>>
    /\ ldHeap' = <<EmptyMap>>
    /\ snapHeap' = <<EmptyData>>
    /\ _regions_cache' = EmptyMap
    /\ _pollen_types_cache' = 1
    /\ _last_successful_data' = 1
    /\ _level_definitions' = 1
    /\ _pollen_types' = 0
    /\ data' = 0
    /\ last_update_success' = TRUE
    /\ cycles' = 0
    /\ cycleResult' = "none"
    /\ fcOutcome' = "never"
    /\ fcResp' = NoResponse
    /\ reqs' = <<>>
    /\ writes' = 0
    /\ published' = <<>>
    /\ update_interval' = NoInterval
    /\ cancelled' = FALSE
    /\ entities' = <<>>
    /\ UNCHANGED callVars

NextConfig ==
    \/ async_step_user
    \/ async_step_init
    \/ SetupGetRegions
    \/ SetupGetPollenTypes

SpecConfig == InitConfig /\ [][NextConfig]_vars

(***************************************************************************)
(* sensor.py, _async_update_data.  The coroutine runs from one await to    *)
(* the next without interruption; pc names the request it is suspended on. *)
(*                                                                         *)
(* ToPollenTypes is the code from line 135 to the next await: the          *)
(* hasattr test, and get_pollen_types up to its request, which it does not *)
(* issue when the client's cache is populated.                             *)
(***************************************************************************)
(***************************************************************************)
(* if not hasattr(self, '_pollen_types'): the attribute is set once, to    *)
(* the catalog or to {}.  The variant tries again while the catalog is     *)
(* empty.                                                                  *)
(***************************************************************************)
PollenTypesNonEmpty == _pollen_types # 0 /\ Truthy(ptHeap[_pollen_types])

PollenTypesFetched == _pollen_types # 0

ToPollenTypes(issued) ==
    IF PollenTypesFetched
    THEN /\ pc' = "await_fc"
         /\ reqs' = Append(issued, "forecasts")
         /\ UNCHANGED <<_pollen_types, ptHeap, _pollen_types_cache>>
    ELSE IF Truthy(ptHeap[_pollen_types_cache])
    THEN /\ _pollen_types' = _pollen_types_cache
         /\ pc' = "await_fc"
         /\ reqs' = Append(issued, "forecasts")
         /\ UNCHANGED <<ptHeap, _pollen_types_cache>>
    ELSE /\ pc' = "await_pt"
         /\ reqs' = Append(issued, "pollen_types")
         /\ UNCHANGED <<_pollen_types, ptHeap, _pollen_types_cache>>

(***************************************************************************)
(* if not self._level_definitions: the catalog is fetched while it is      *)
(* empty.  The variant fetches in every cycle.                             *)
(***************************************************************************)
FetchAlways == TRUE

LevelDefinitionsMissing == ~Truthy(ldHeap[_level_definitions])

BeginCycle ==
    /\ pc = "idle"
    /\ cycles < MaxCycles
    /\ writes' = 0
    /\ fcResp' = NoResponse
    /\ IF LevelDefinitionsMissing
       THEN /\ pc' = "await_ld"
            /\ reqs' = <<"level_definitions">>
            /\ UNCHANGED <<_pollen_types, ptHeap, _pollen_types_cache>>
       ELSE ToPollenTypes(<<>>)
    /\ UNCHANGED <<ldHeap, snapHeap, _last_successful_data, _level_definitions,
                   data, last_update_success, _regions_cache, cycles,
                   cycleResult, fcOutcome, published, callVars>>
    /\ UNCHANGED <<configVars, cancelled, entities>>

(***************************************************************************)
(* The two outer except clauses (lines 152-167), and what the              *)
(* DataUpdateCoordinator does with the outcome: a returned value becomes   *)
(* data and the update counts as successful; UpdateFailed leaves data as   *)
(* it is and the update counts as failed.                                  *)
(***************************************************************************)
NeverFallback == FALSE

AlwaysFallback == TRUE

FallbackWhenLevels == Truthy(snapHeap[_last_successful_data].pollen_levels)

FallbackAvailable == DataTruthy(snapHeap[_last_successful_data])

Returned(ref) ==
    /\ data' = ref
    /\ last_update_success' = TRUE
    /\ cycleResult' = "returned"

Raised ==
    /\ data' = data
    /\ last_update_success' = FALSE
    /\ cycleResult' = UpdateFailed

OnError ==
    /\ IF FallbackAvailable THEN Returned(_last_successful_data) ELSE Raised
    /\ UNCHANGED <<snapHeap, _last_successful_data, writes, published>>

(***************************************************************************)
(* sensor.py lines 73-88, the end of async_setup_entry.  The first refresh *)
(* (async_config_entry_first_refresh) raises ConfigEntryNotReady when the  *)
(* update failed; "except Exception" logs it, and setup goes on to build   *)
(* the entity list: the forecast sensor, then one sensor per id of         *)
(* entry.data's pollen types, in the list's order.  An entity is recorded  *)
(* by its class and its pollen id.  The variant is the call without the    *)
(* try: the error leaves setup before the list is built.                   *)
(***************************************************************************)
ConfigEntryNotReady == "ConfigEntryNotReady"

FirstRefreshRaises(exc) == FALSE

FirstRefreshErrorCaught(exc) == IsException(exc)

FirstRefreshReturns(result) ==
    result = "returned" \/ FirstRefreshErrorCaught(ConfigEntryNotReady)

PollenForecastSensor == [class |-> "PollenForecastSensor", pollen_id |-> ""]

PollenSensor(pollen_id) == [class |-> "PollenSensor", pollen_id |-> pollen_id]

AddEntities(config_entry) ==
    <<PollenForecastSensor>> \o
    [i \in 1..Len(config_entry.pollen_types) |->
        PollenSensor(config_entry.pollen_types[i])]

(***************************************************************************)
(* The end of a cycle.  The first cycle is the first refresh, so setup     *)
(* resumes after it and adds the entities.                                 *)
(***************************************************************************)
EndCycle(outcome, resp) ==
    /\ pc' = "idle"
    /\ cycles' = cycles + 1
    /\ fcOutcome' = outcome
    /\ fcResp' = resp
    /\ entities' =
          IF cycles = 0 /\ FirstRefreshReturns(cycleResult')
          THEN AddEntities(entry)
          ELSE entities

LevelDefinitionsResponse ==
    /\ pc = "await_ld"
    /\ \E resp \in LevelDefinitionsResponses :
          LET o == ParseLevelDefinitions(resp)
              st == StoreLevelDefinitions(ldHeap, _level_definitions, o.catalog)
          IN  IF o.exc # NoExc /\ ~LevelDefinitionsErrorCaught(o.exc)
              THEN /\ OnError
                   /\ EndCycle("not_fetched", NoResponse)
                   /\ UNCHANGED <<ldHeap, _level_definitions, _pollen_types, ptHeap,
                                  _pollen_types_cache, reqs>>
              ELSE /\ IF o.assign
                      THEN ldHeap' = st.heap /\ _level_definitions' = st.ref
                      ELSE UNCHANGED <<ldHeap, _level_definitions>>
                   /\ ToPollenTypes(reqs)
                   /\ UNCHANGED <<snapHeap, _last_successful_data, data,
                                  last_update_success, cycles, cycleResult, fcOutcome,
                                  fcResp, writes, published, entities>>
    /\ UNCHANGED <<_regions_cache, callVars, configVars, cancelled>>

PollenTypesResponse ==
    /\ pc = "await_pt"
    /\ \E resp \in PollenTypesResponses :
          LET o == ParsePollenTypes(resp)
              st == StorePollenTypes(ptHeap, _pollen_types_cache, o.catalog)
          IN  IF o.exc # NoExc /\ ~PollenTypesErrorCaught(o.exc)
              THEN /\ OnError
                   /\ EndCycle("not_fetched", NoResponse)
                   /\ UNCHANGED <<_pollen_types, ptHeap, _pollen_types_cache, reqs>>
              ELSE /\ IF o.exc = NoExc
                      THEN /\ ptHeap' = st.heap
                           /\ _pollen_types_cache' = st.ref
                           /\ _pollen_types' = st.ref
                      ELSE /\ ptHeap' = Append(ptHeap, EmptyMap)
                           /\ _pollen_types' = Len(ptHeap) + 1
                           /\ UNCHANGED _pollen_types_cache
                   /\ pc' = "await_fc"
                   /\ reqs' = Append(reqs, "forecasts")
                   /\ UNCHANGED <<snapHeap, _last_successful_data, data,
                                  last_update_success, cycles, cycleResult, fcOutcome,
                                  fcResp, writes, published, entities>>
    /\ UNCHANGED <<ldHeap, _level_definitions, _regions_cache, callVars>>
    /\ UNCHANGED <<configVars, cancelled>>

(***************************************************************************)
(* Lines 143-150.  The result get_forecasts returns is a new dict with     *)
(* four keys, so "if data" holds; the catalogs are added to it by          *)
(* reference and it becomes _last_successful_data.  The in-place variant   *)
(* is what self._last_successful_data.update(data) would do.               *)
(***************************************************************************)
StoreSnapshotInPlace(heap, ref, snap) ==
    [heap |-> [heap EXCEPT ![ref] = snap], ref |-> ref]

StoreSnapshot(heap, ref, snap) ==
    [heap |-> Append(heap, snap), ref |-> Len(heap) + 1]

ForecastResponse ==
    /\ pc = "await_fc"
    /\ \E resp \in ForecastResponses :
          LET o == ParseForecast(resp)
              snap == MergeCatalogs(o.result, _level_definitions, _pollen_types)
              st == StoreSnapshot(snapHeap, _last_successful_data, snap)
          IN  /\ IF o.exc = NoExc
                 THEN /\ snapHeap' = st.heap
                      /\ _last_successful_data' = st.ref
                      /\ writes' = writes + 1
                      /\ published' =
                            Append(published,
                                   [ref |-> st.ref,
                                    contents |->
                                        [forecast |-> o.result,
                                         level_definitions |-> ldHeap[_level_definitions],
                                         pollen_types |-> ptHeap[_pollen_types]]])
                      /\ Returned(st.ref)
                 ELSE OnError
              /\ EndCycle(o.exc, resp)
    /\ UNCHANGED <<ldHeap, _level_definitions, _pollen_types, ptHeap,
                   _pollen_types_cache, _regions_cache, reqs, callVars>>
    /\ UNCHANGED <<configVars, cancelled>>

(***************************************************************************)
(* The host cancels the refresh task, at unload or shutdown, while the     *)
(* coroutine is suspended on a request: CancelledError is raised at that   *)
(* await.  No except clause of the client or of _async_update_data         *)
(* catches it, so it leaves the coroutine, the coordinator keeps data and  *)
(* last_update_success, and no cycle follows.  The other branches are what *)
(* an except clause that caught it would go on to do.                      *)
(***************************************************************************)
Cancel ==
    /\ pc \in {"await_ld", "await_pt", "await_fc"}
    /\ cancelled' = TRUE
    /\ IF pc = "await_ld" /\ LevelDefinitionsErrorCaught(CancelledError)
       THEN /\ ToPollenTypes(reqs)
            /\ UNCHANGED <<snapHeap, _last_successful_data, data,
                           last_update_success, cycles, cycleResult, fcOutcome,
                           fcResp, writes, published, entities>>
       ELSE IF pc = "await_pt" /\ PollenTypesErrorCaught(CancelledError)
       THEN /\ ptHeap' = Append(ptHeap, EmptyMap)
            /\ _pollen_types' = Len(ptHeap) + 1
            /\ pc' = "await_fc"
            /\ reqs' = Append(reqs, "forecasts")
            /\ UNCHANGED <<_pollen_types_cache, snapHeap, _last_successful_data, data,
                           last_update_success, cycles, cycleResult, fcOutcome,
                           fcResp, writes, published, entities>>
       ELSE IF UpdateErrorCaught(CancelledError)
       THEN /\ OnError
            /\ EndCycle(CancelledError, NoResponse)
            /\ UNCHANGED <<_pollen_types, ptHeap, _pollen_types_cache, reqs>>
       ELSE /\ pc' = "cancelled"
            /\ UNCHANGED <<_pollen_types, ptHeap, _pollen_types_cache, reqs,
                           snapHeap, _last_successful_data, data,
                           last_update_success, cycles, cycleResult, fcOutcome,
                           fcResp, writes, published, entities>>
    /\ UNCHANGED <<ldHeap, _level_definitions, _regions_cache, callVars, configVars>>

Next ==
    \/ SetupGetRegions
    \/ SetupGetPollenTypes
    \/ BeginCycle
    \/ LevelDefinitionsResponse
    \/ PollenTypesResponse
    \/ ForecastResponse
    \/ Cancel

Spec == Init /\ [][Next]_vars

(***************************************************************************)
(* async_setup_entry on its own, for each selection: the two fetches, the  *)
(* first refresh, and the registration of the entities.                    *)
(***************************************************************************)
FirstRefresh == cycles = 0 /\ BeginCycle

NextSetup ==
    \/ SetupGetRegions
    \/ SetupGetPollenTypes
    \/ FirstRefresh
    \/ LevelDefinitionsResponse
    \/ PollenTypesResponse
    \/ ForecastResponse
    \/ Cancel

SpecSetup == InitSetup /\ [][NextSetup]_vars

(***************************************************************************)
(* sensor.py, the entities.  async_setup_entry adds them after the first   *)
(* refresh has ended, whether it succeeded or not.  None is NoLevel for a  *)
(* level and NoDate for a date.                                            *)
(***************************************************************************)
ViewsRegistered == cycles >= 1

SensorIds == {"p1", "p2", "p3"}

HasData == data # 0 /\ DataTruthy(snapHeap[data])

NativeValueOrZero(pollen_id) ==
    IF ~HasData THEN NoLevel ELSE MapGet(snapHeap[data].pollen_levels, pollen_id, 0)

PollenSensor_native_value(pollen_id) ==
    IF ~HasData THEN NoLevel ELSE MapGet(snapHeap[data].pollen_levels, pollen_id, NoLevel)

AvailableWhenLevels == HasData /\ Truthy(snapHeap[data].pollen_levels)

PollenSensor_available ==
    last_update_success \/ DataTruthy(snapHeap[_last_successful_data])

AvailableWhenForecastLevels == HasData /\ snapHeap[data].pollen_ids # <<>>

PollenForecastSensor_available ==
    last_update_success \/ DataTruthy(snapHeap[_last_successful_data])

(***************************************************************************)
(* PollenForecastSensor.native_value: the start date parsed as a date in   *)
(* the Stockholm time zone, None when there is no data, no start date or   *)
(* no date in the string.  The state of an entity is "unavailable" when    *)
(* available is false, "unknown" when native_value is None, and the value  *)
(* otherwise.                                                              *)
(***************************************************************************)
NoDate == [date |-> "none", tzinfo |-> "none"]

ValidDates == {"A1", "B1", "C1", "S1"}

ParseDate(date_str) ==
    IF date_str \in ValidDates
    THEN [date |-> date_str, tzinfo |-> "Europe/Stockholm"]
    ELSE NoDate

PollenForecastSensor_native_value ==
    IF ~HasData THEN NoDate
    ELSE IF snapHeap[data].start_date = "" THEN NoDate
    ELSE ParseDate(snapHeap[data].start_date)

PollenForecastSensor_state ==
    IF ~PollenForecastSensor_available THEN [state |-> "unavailable", value |-> NoDate]
    ELSE IF PollenForecastSensor_native_value = NoDate
         THEN [state |-> "unknown", value |-> NoDate]
    ELSE [state |-> "timestamp", value |-> PollenForecastSensor_native_value]

(***************************************************************************)
(* PollenForecastSensor.extra_state_attributes, the pollen levels: one     *)
(* entry for each key of pollen_levels, in the order the dict holds them.  *)
(* Names compare as Python strings do, by code point.                      *)
(***************************************************************************)
NamesAscending == <<"Bjork", "Gras", "p1", "p2", "p3">>

NameRank(name) == CHOOSE i \in 1..Len(NamesAscending) : NamesAscending[i] = name

PollenName(pollen_types, pollen_id) == MapGet(pollen_types, pollen_id, pollen_id)

UnknownLevel(level) == "Okand niva: " \o ToString(level)

NoDescription == "<none>"

DescriptionIfKnown(level_definitions, level) ==
    MapGet(level_definitions, level, NoDescription)

LevelDescription(level_definitions, level) ==
    MapGet(level_definitions, level, UnknownLevel(level))

(***************************************************************************)
(* PollenSensor.extra_state_attributes, level_description: the key is      *)
(* absent (NoDescription) when there is no data or no level for the id.    *)
(***************************************************************************)
PollenSensor_level_description(pollen_id) ==
    IF ~HasData THEN NoDescription
    ELSE LET d == snapHeap[data]
             level == MapGet(d.pollen_levels, pollen_id, NoLevel)
         IN  IF level # NoLevel /\ d.level_definitions # 0
             THEN LevelDescription(Deref(ldHeap, d.level_definitions), level)
             ELSE NoDescription

SortedByName(pollen_ids, pollen_types) ==
    LET n == Len(pollen_ids)
        ids == {pollen_ids[i] : i \in 1..n}
    IN  CHOOSE s \in [1..n -> ids] :
            /\ {s[i] : i \in 1..n} = ids
            /\ \A i, j \in 1..n :
                  i < j => NameRank(PollenName(pollen_types, s[i]))
                              <= NameRank(PollenName(pollen_types, s[j]))

AttributeOrder(pollen_ids, pollen_types) == pollen_ids

PollenForecastSensor_pollen_entries ==
    IF ~HasData THEN <<>>
    ELSE LET d == snapHeap[data]
             pollen_types == Deref(ptHeap, d.pollen_types)
             level_definitions == Deref(ldHeap, d.level_definitions)
             order == AttributeOrder(d.pollen_ids, pollen_types)
         IN  [i \in 1..Len(order) |->
                 [type_name |-> PollenName(pollen_types, order[i]),
                  type_id |-> order[i],
                  level |-> d.pollen_levels[order[i]],
                  description |->
                      LevelDescription(level_definitions, d.pollen_levels[order[i]])]]

(***************************************************************************)
(* The coordinator's state, as the specification names it.                 *)
(***************************************************************************)
Uninitialized == ~DataTruthy(snapHeap[_last_successful_data])

CoordState ==
    IF Uninitialized THEN "Uninitialized"
    ELSE IF fcOutcome = NoExc THEN "Ready"
    ELSE "Degraded"

ForecastFailed == fcOutcome \in {ApiError, ClientError, TimeoutError}

(***************************************************************************)
(* C1: once a cycle has succeeded, a cycle whose forecast fetch fails      *)
(* returns without raising, and the snapshot exposed after it has the      *)
(* contents, catalogs included, that the most recent successful cycle      *)
(* published.                                                              *)
(***************************************************************************)
C1_StaleSnapshotServed ==
    (ForecastFailed /\ published # <<>>) =>
        /\ cycleResult = "returned"
        /\ data # 0
        /\ Contents(data) = Last(published).contents

C1_Witness ==
    /\ pc = "idle"
    /\ fcOutcome = TimeoutError
    /\ Len(published) = 1
    /\ Truthy(ldHeap[_level_definitions])
    /\ ~Truthy(Last(published).contents.level_definitions)

(***************************************************************************)
(* C2: while no cycle has succeeded, a cycle whose forecast fetch fails    *)
(* raises UpdateFailed, publishes nothing and leaves the coordinator       *)
(* Uninitialized, however many failing cycles came before.                 *)
(***************************************************************************)
C2_FirstFailuresRaise ==
    [][(pc = "await_fc" /\ pc' = "idle" /\ Uninitialized /\ fcOutcome' # NoExc) =>
          /\ cycleResult' = UpdateFailed
          /\ data = 0 /\ data' = 0
          /\ UNCHANGED <<snapHeap, _last_successful_data, published>>
          /\ Uninitialized']_vars

C2_Witness ==
    /\ pc = "idle"
    /\ cycles = 3
    /\ Uninitialized
    /\ cycleResult = UpdateFailed
    /\ fcOutcome = ClientError

(***************************************************************************)
(* C3: at every point of a cycle a reader sees no snapshot or exactly what *)
(* one successful cycle published; the snapshot is written once in a       *)
(* successful cycle, after the forecast request, and never in a failing    *)
(* one.                                                                    *)
(***************************************************************************)
IsPublished(ref) ==
    /\ DataTruthy(snapHeap[ref])
    /\ \E i \in 1..Len(published) : Contents(ref) = published[i].contents

C3_NoTornSnapshot ==
    /\ data = 0 \/ IsPublished(data)
    /\ Uninitialized \/ IsPublished(_last_successful_data)
    /\ pc # "idle" => writes = 0
    /\ (pc = "idle" /\ cycles > 0) => writes = (IF fcOutcome = NoExc THEN 1 ELSE 0)

C3_Witness ==
    /\ pc = "await_fc"
    /\ data # 0
    /\ snapHeap[data].level_definitions # _level_definitions
    /\ Truthy(ldHeap[_level_definitions])

(***************************************************************************)
(* C4: the end of a cycle moves the coordinator Uninitialized -> Ready on  *)
(* success, Uninitialized -> Uninitialized on failure, Ready/Degraded ->   *)
(* Ready on success and Ready/Degraded -> Degraded on failure; no other    *)
(* step changes the state, and a cycle that starts with a snapshot never   *)
(* raises.                                                                 *)
(***************************************************************************)
C4_Transitions ==
    [][IF cycles' # cycles
       THEN /\ CoordState' =
                  (IF fcOutcome' = NoExc THEN "Ready"
                   ELSE IF CoordState = "Uninitialized" THEN "Uninitialized"
                   ELSE "Degraded")
            /\ CoordState # "Uninitialized" => cycleResult' = "returned"
       ELSE CoordState' = CoordState]_vars

C4_Witness ==
    /\ pc = "idle"
    /\ cycles = 3
    /\ CoordState = "Degraded"
    /\ Len(published) = 1
    /\ snapHeap[data].pollen_levels = EmptyMap

(***************************************************************************)
(* C5: whatever the level-definitions and pollen-types requests of a cycle *)
(* do, the cycle goes on to the forecast request unless the host cancels   *)
(* it, and when the forecast request succeeds the cycle returns and        *)
(* publishes a new snapshot built from that forecast.                      *)
(***************************************************************************)
C5_ReferenceFailuresSwallowed ==
    [][/\ (pc = "await_ld" /\ ~cancelled') =>
             pc' \in {"await_ld", "await_pt", "await_fc"}
       /\ (pc = "await_pt" /\ ~cancelled') => pc' \in {"await_pt", "await_fc"}
       /\ (cycles' # cycles /\ fcOutcome' = NoExc) =>
             /\ cycleResult' = "returned"
             /\ Len(published') = Len(published) + 1
             /\ data' = Last(published').ref
             /\ snapHeap'[data'].start_date = fcResp'.body.items[1].startDate
             /\ snapHeap'[data'].text = fcResp'.body.items[1].text]_vars

C5_Witness ==
    /\ pc = "idle"
    /\ cycles = 1
    /\ fcOutcome = NoExc
    /\ reqs = <<"level_definitions", "pollen_types", "forecasts">>
    /\ ~Truthy(ldHeap[_level_definitions])
    /\ _pollen_types # _pollen_types_cache
    /\ data # 0

(***************************************************************************)
(* C6: after a successful cycle the exposed snapshot's validity window,    *)
(* text and levels are those of this cycle's forecast item alone: every    *)
(* level in it comes from an entry of the item for today, so a type the    *)
(* previous snapshot had and today's entries lack has no level.            *)
(***************************************************************************)
FromTodaysEntries(levels, series) ==
    \A p \in DOMAIN levels :
        \E i \in 1..Len(series) :
            /\ series[i].pollenId = p
            /\ series[i].level = levels[p]
            /\ Contains(Today, series[i].time)

C6_ReplacedWholesale ==
    (pc = "idle" /\ fcOutcome = NoExc) =>
        LET item == fcResp.body.items[1]
            snap == snapHeap[data]
        IN  /\ snap.start_date = item.startDate
            /\ snap.end_date = item.endDate
            /\ snap.text = item.text
            /\ FromTodaysEntries(snap.pollen_levels, item.levelSeries)
            /\ _last_successful_data = data

C6_Witness ==
    /\ pc = "idle"
    /\ fcOutcome = NoExc
    /\ Len(published) = 2
    /\ "p1" \in DOMAIN published[1].contents.forecast.pollen_levels
    /\ "p1" \notin DOMAIN snapHeap[data].pollen_levels
    /\ cycles = 3

(***************************************************************************)
(* C7: the contents of every snapshot ever published, its two catalogs     *)
(* included, are what they were when it was published.                     *)
(***************************************************************************)
C7_PublishedNeverMutated ==
    \A i \in 1..Len(published) : Contents(published[i].ref) = published[i].contents

C7_Witness ==
    /\ Len(published) = 2
    /\ ~Truthy(published[1].contents.level_definitions)
    /\ Truthy(published[2].contents.level_definitions)
    /\ Truthy(published[1].contents.pollen_types)
    /\ published[1].ref # published[2].ref

(***************************************************************************)
(* Steps of the direct caller, by the call made.                           *)
(***************************************************************************)
PollenTypesStep == calls' = calls + 1 /\ lastCall'.op = "get_pollen_types"

RegionsStep == calls' = calls + 1 /\ lastCall'.op = "get_regions"

NoItemsBody(resp) ==
    /\ resp.kind = "http"
    /\ resp.status = 200
    /\ resp.body.form = "noitems" \/ (resp.body.form = "items" /\ resp.body.items = <<>>)

NonEmptyCatalogBody(resp) ==
    /\ resp.kind = "http"
    /\ resp.status = 200
    /\ resp.body.form = "items"
    /\ resp.body.items # <<>>
    /\ ~HasKeyError(resp.body.items)

(***************************************************************************)
(* C8: a get_pollen_types call made while the cache is empty issues a      *)
(* request; a response without items makes it raise and leaves the cache   *)
(* empty; a response with a catalog is cached and returned; a call made    *)
(* while the cache is populated issues no request and returns the cache.   *)
(***************************************************************************)
C8_PollenTypesCache ==
    [][PollenTypesStep =>
          IF Truthy(ptHeap[_pollen_types_cache])
          THEN /\ ~lastCall'.requested
               /\ requests' = requests
               /\ lastCall'.exc = NoExc
               /\ lastCall'.ret = ptHeap[_pollen_types_cache]
               /\ ptHeap'[_pollen_types_cache'] = ptHeap[_pollen_types_cache]
          ELSE /\ lastCall'.requested
               /\ requests'["pollen_types"] = requests["pollen_types"] + 1
               /\ NoItemsBody(lastCall'.resp) =>
                     /\ lastCall'.exc = ApiError
                     /\ ~Truthy(ptHeap'[_pollen_types_cache'])
               /\ NonEmptyCatalogBody(lastCall'.resp) =>
                     /\ lastCall'.exc = NoExc
                     /\ Truthy(lastCall'.ret)
                     /\ ptHeap'[_pollen_types_cache'] = lastCall'.ret
                     /\ \A i \in 1..Len(lastCall'.resp.body.items) :
                           lastCall'.resp.body.items[i].id \in DOMAIN lastCall'.ret]_vars

C8_Witness ==
    /\ calls = 4
    /\ requests = [r \in {"regions", "pollen_types", "forecasts"} |->
                      IF r = "pollen_types" THEN 3 ELSE 0]
    /\ lastCall.op = "get_pollen_types"
    /\ ~lastCall.requested
    /\ Truthy(lastCall.ret)

(***************************************************************************)
(* C9: a get_regions call made while the cache is empty returns an empty   *)
(* mapping when the status is not 200 or the body has no items key, and    *)
(* raises PollenPulsenApiClientError on a timeout, a connection failure    *)
(* and a body of the wrong shape; the cache stays empty in all these       *)
(* cases.                                                                  *)
(***************************************************************************)
C9_RegionsFailures ==
    [][(RegionsStep /\ ~Truthy(_regions_cache)) =>
          LET r == lastCall'.resp
          IN  /\ lastCall'.requested
              /\ (r.kind = "http" /\ (r.status # 200 \/ r.body.form \in {"empty", "noitems"})) =>
                    /\ lastCall'.exc = NoExc
                    /\ lastCall'.ret = EmptyMap
                    /\ _regions_cache' = EmptyMap
              /\ (\/ r.kind \in {"timeout", "connerr"}
                  \/ /\ r.kind = "http"
                     /\ r.status = 200
                     /\ \/ r.body.form = "null"
                        \/ r.body.form = "items" /\ HasKeyError(r.body.items)) =>
                    /\ lastCall'.exc = ApiError
                    /\ _regions_cache' = EmptyMap]_vars

C9_Witness ==
    /\ lastCall.op = "get_regions"
    /\ lastCall.resp = Http(204, "items", <<Item("17", "Stockholm")>>)
    /\ lastCall.requested
    /\ lastCall.exc = NoExc
    /\ lastCall.ret = EmptyMap
    /\ _regions_cache = EmptyMap

(***************************************************************************)
(* C10, as claimed: once a get_regions call has returned a catalog, no     *)
(* later get_regions call issues a request and each returns that catalog.  *)
(***************************************************************************)
C10_AnyReturnedCatalogIsFinal ==
    [][(RegionsStep /\ regionsReturned # <<>>) =>
          /\ ~lastCall'.requested
          /\ lastCall'.exc = NoExc
          /\ lastCall'.ret = regionsReturned[1]]_vars

(***************************************************************************)
(* C10, amended: once a get_regions call has returned a catalog that is    *)
(* not empty, no later get_regions call issues a request, each returns     *)
(* that catalog, and the cache never changes again.                        *)
(***************************************************************************)
C10_NonEmptyCatalogIsFinal ==
    [][/\ (RegionsStep /\ regionsReturned # <<>> /\ Truthy(Last(regionsReturned))) =>
             /\ ~lastCall'.requested
             /\ requests' = requests
             /\ lastCall'.exc = NoExc
             /\ lastCall'.ret = regionsReturned[1]
       /\ (regionsReturned # <<>> /\ Truthy(Last(regionsReturned))) =>
             _regions_cache' = regionsReturned[1]]_vars

C10_Witness ==
    /\ calls = 4
    /\ requests["regions"] = 2
    /\ regionsReturned # <<>>
    /\ Truthy(Last(regionsReturned))
    /\ lastCall.op = "get_regions"
    /\ ~lastCall.requested

(***************************************************************************)
(* C11: get_forecasts puts every failing response into exactly one error   *)
(* outcome, in this order: a status of 400 or more is an HTTP error that   *)
(* carries the status, whatever the body; otherwise a null or empty body   *)
(* is the empty-response error; otherwise missing or empty items is the    *)
(* no-items error; a timeout and a connection failure are raised as their  *)
(* own kinds; and a call that fails returns no forecast.                   *)
(***************************************************************************)
ForecastsCall == lastCall.op = "get_forecasts"

C11_FailureClassification ==
    ForecastsCall =>
        LET r == lastCall.resp
            ok == r.kind = "http" /\ r.status < 400
            emptyBody == r.body.form \in {"null", "empty"}
            noItems == r.body.form = "noitems" \/ r.body.items = <<>>
        IN  /\ r.kind = "timeout" =>
                  lastCall.exc = TimeoutError /\ lastCall.err = "timeout"
            /\ r.kind = "connerr" =>
                  lastCall.exc = ClientError /\ lastCall.err = "conn"
            /\ (r.kind = "http" /\ r.status >= 400) =>
                  /\ lastCall.exc = ApiError
                  /\ lastCall.err = "http"
                  /\ lastCall.status = r.status
            /\ (ok /\ emptyBody) =>
                  lastCall.exc = ApiError /\ lastCall.err = "empty"
            /\ (ok /\ ~emptyBody /\ noItems) =>
                  lastCall.exc = ApiError /\ lastCall.err = "no_items"
            /\ lastCall.exc # NoExc => lastCall.forecast = NoResult
            /\ lastCall.exc = NoExc => (ok /\ ~emptyBody /\ ~noItems)

C11_Witness ==
    /\ ForecastsCall
    /\ lastCall.resp = Http(404, "null", <<>>)
    /\ lastCall.exc = ApiError
    /\ lastCall.err = "http"
    /\ lastCall.status = 404
    /\ lastCall.forecast = NoResult

(***************************************************************************)
(* C12: the levels mapping get_forecasts returns has a pollen id only if   *)
(* some entry of levelSeries for that id has a time that contains today's  *)
(* date, and the level it has is the level of such an entry: an entry for  *)
(* another date contributes nothing, even for an id that today's entries   *)
(* name as well.                                                           *)
(***************************************************************************)
CalledSeries == lastCall.resp.body.items[1].levelSeries

ReturnedLevels == lastCall.forecast.pollen_levels

TodayIndexes(pollen_id) ==
    {i \in 1..Len(CalledSeries) :
        /\ CalledSeries[i].pollenId = pollen_id
        /\ Contains(Today, CalledSeries[i].time)}

C12_OnlyTodaysEntries ==
    (ForecastsCall /\ lastCall.exc = NoExc) =>
        \A p \in DOMAIN ReturnedLevels :
            \E i \in TodayIndexes(p) : CalledSeries[i].level = ReturnedLevels[p]

C12_Witness ==
    /\ ForecastsCall
    /\ CalledSeries = <<Entry(<<"D1", "T">>, "p1", 3), Entry(<<"D0", "T">>, "p1", 0)>>
    /\ ReturnedLevels = MapPut(EmptyMap, "p1", 3)

(***************************************************************************)
(* C13, as claimed: when two entries of levelSeries match today's date for *)
(* the same pollen id, the level in the returned mapping is the level of   *)
(* the later entry.                                                        *)
(***************************************************************************)
MaxOf(S) == CHOOSE i \in S : \A j \in S : j <= i

C13_LaterEntryWins ==
    (ForecastsCall /\ lastCall.exc = NoExc) =>
        \A p \in {"p1", "p2"} :
            Cardinality(TodayIndexes(p)) >= 2 =>
                /\ p \in DOMAIN ReturnedLevels
                /\ ReturnedLevels[p] = CalledSeries[MaxOf(TodayIndexes(p))].level

(***************************************************************************)
(* C13, amended: when two entries of levelSeries match today's date for    *)
(* the same pollen id and both carry a level, the level in the returned    *)
(* mapping is the level of the later of them; an entry whose level is null *)
(* is skipped and leaves the earlier level in place.                       *)
(***************************************************************************)
TodayIndexesWithLevel(pollen_id) ==
    {i \in TodayIndexes(pollen_id) : CalledSeries[i].level # NoLevel}

C13_LaterEntryWithLevelWins ==
    (ForecastsCall /\ lastCall.exc = NoExc) =>
        \A p \in {"p1", "p2"} :
            Cardinality(TodayIndexesWithLevel(p)) >= 2 =>
                /\ p \in DOMAIN ReturnedLevels
                /\ ReturnedLevels[p] = CalledSeries[MaxOf(TodayIndexesWithLevel(p))].level

C13_Witness ==
    /\ ForecastsCall
    /\ CalledSeries = <<Entry(<<"D1", "T">>, "p1", 0), Entry(<<"T", "D1">>, "p1", 3)>>
    /\ ReturnedLevels = MapPut(EmptyMap, "p1", 3)

(***************************************************************************)
(* C14: the measurement view of a pollen id reports no level (None) when   *)
(* no snapshot exists or the levels of the current snapshot have no entry  *)
(* for the id, and otherwise exactly the level stored for the id.          *)
(***************************************************************************)
CurrentLevels == Last(published).contents.forecast.pollen_levels

C14_NativeValue ==
    \A id \in SensorIds :
        PollenSensor_native_value(id) =
            IF published = <<>> THEN NoLevel
            ELSE IF id \notin DOMAIN CurrentLevels THEN NoLevel
            ELSE CurrentLevels[id]

C14_Witness ==
    /\ ViewsRegistered
    /\ published # <<>>
    /\ DOMAIN CurrentLevels = {"p2"}
    /\ PollenSensor_native_value("p2") = 2
    /\ PollenSensor_native_value("p1") = NoLevel

(***************************************************************************)
(* C15: in every state in which a snapshot exists, the measurement views   *)
(* and the forecast view report available, also when the snapshot is stale *)
(* because the latest forecast fetch failed.                               *)
(***************************************************************************)
C15_AvailableWithSnapshot ==
    published # <<>> => (PollenSensor_available /\ PollenForecastSensor_available)

C15_Witness ==
    /\ ViewsRegistered
    /\ pc = "idle"
    /\ CoordState = "Degraded"
    /\ CurrentLevels = EmptyMap
    /\ PollenSensor_available
    /\ PollenForecastSensor_available

C17_SortedByTypeName ==
    LET e == PollenForecastSensor_pollen_entries
    IN  \A i, j \in 1..Len(e) :
            i < j => NameRank(e[i].type_name) <= NameRank(e[j].type_name)

(***************************************************************************)
(* C17, amended: the forecast view has one entry for each pollen id of the *)
(* levels mapping, in the order in which the mapping holds them (the order *)
(* in which today's entries first name each id), with the name the catalog *)
(* has for the id and the level the mapping has for it.                    *)
(***************************************************************************)
C17_MappingOrder ==
    published # <<>> =>
        LET e == PollenForecastSensor_pollen_entries
            c == Last(published).contents
            ids == c.forecast.pollen_ids
        IN  /\ Len(e) = Len(ids)
            /\ \A i \in 1..Len(e) :
                  /\ e[i].type_id = ids[i]
                  /\ e[i].level = c.forecast.pollen_levels[ids[i]]
                  /\ e[i].type_name = MapGet(c.pollen_types, ids[i], ids[i])

C17_Witness ==
    /\ published # <<>>
    /\ Len(PollenForecastSensor_pollen_entries) = 2
    /\ PollenForecastSensor_pollen_entries[1].type_name = "Gras"
    /\ PollenForecastSensor_pollen_entries[1].level = 1
    /\ PollenForecastSensor_pollen_entries[2].type_name = "Bjork"
    /\ PollenForecastSensor_pollen_entries[2].description = "Hoga"

(***************************************************************************)
(* C18, as claimed: the coordinator that setup creates has the interval    *)
(* the user configured as its update interval, whether the value was       *)
(* accepted by the initial form or by the options form, and 3 hours when   *)
(* none was given.                                                         *)
(***************************************************************************)
ConfiguredInterval ==
    IF entry.options # NoInterval THEN entry.options ELSE entry.data

C18_ConfiguredIntervalUsed ==
    update_interval # NoInterval => update_interval = ConfiguredInterval

(***************************************************************************)
(* C19: a cycle that the host cancels while a request is in flight ends    *)
(* with the cancellation, not with a return or with UpdateFailed; it       *)
(* publishes no snapshot, and data, last_update_success and the last       *)
(* successful snapshot stay as they were.                                  *)
(***************************************************************************)
C19_CancellationPropagates ==
    [][cancelled' =>
          /\ pc' = "cancelled"
          /\ UNCHANGED <<data, last_update_success, snapHeap, _last_successful_data,
                         published, writes, cycleResult, cycles>>]_vars

C19_Witness ==
    /\ cancelled
    /\ pc = "cancelled"
    /\ Last(reqs) = "forecasts"
    /\ Len(published) = 1
    /\ data = Last(published).ref
    /\ Contents(data) = Last(published).contents

(***************************************************************************)
(* C20: a cycle requests the level definitions exactly when the            *)
(* coordinator's catalog is empty at its start, however many cycles have   *)
(* tried before; no request for them is issued later in a cycle; and once  *)
(* the catalog is not empty it never changes.                              *)
(***************************************************************************)
Requested(resource, issued) == \E i \in 1..Len(issued) : issued[i] = resource

C20_LevelDefinitionsWhileEmpty ==
    [][/\ (pc = "idle" /\ pc' \in {"await_ld", "await_pt", "await_fc"}) =>
             (Requested("level_definitions", reqs')
                 <=> ~Truthy(ldHeap[_level_definitions]))
       /\ pc # "idle" =>
             (Requested("level_definitions", reqs')
                 <=> Requested("level_definitions", reqs))
       /\ Truthy(ldHeap[_level_definitions]) =>
             ldHeap'[_level_definitions'] = ldHeap[_level_definitions]]_vars

C20_Witness ==
    /\ cycles = 2
    /\ pc = "await_fc"
    /\ Len(ldHeap) = 3
    /\ ~Truthy(ldHeap[2])
    /\ Truthy(ldHeap[_level_definitions])
    /\ ~Requested("level_definitions", reqs)

(***************************************************************************)
(* C21: the coordinator tries to set its pollen-type catalog only in its   *)
(* first cycle, and does so in every first cycle that is not cancelled; a  *)
(* failed attempt leaves an empty catalog and the cycle goes on to the     *)
(* forecast request; a catalog that is set never changes, so after a       *)
(* failed attempt every snapshot the coordinator publishes has an empty    *)
(* pollen-type catalog.                                                    *)
(***************************************************************************)
PollenTypesSet == _pollen_types # 0

PollenTypesFailed == PollenTypesSet /\ ~Truthy(ptHeap[_pollen_types])

EmptyCatalogEmbedded ==
    PollenTypesFailed =>
        \A i \in 1..Len(published) :
            /\ published[i].contents.pollen_types = EmptyMap
            /\ Contents(published[i].ref).pollen_types = EmptyMap

C21_PollenTypesOnlyInFirstCycle ==
    [][/\ (pc' = "await_pt" \/ _pollen_types' # _pollen_types) => cycles = 0
       /\ cycles' = 1 => PollenTypesSet'
       /\ (pc = "await_pt" /\ ~cancelled') => (PollenTypesSet' /\ pc' = "await_fc")
       /\ PollenTypesSet =>
             /\ _pollen_types' = _pollen_types
             /\ ptHeap'[_pollen_types'] = ptHeap[_pollen_types]
             /\ pc' # "await_pt"
       /\ EmptyCatalogEmbedded']_vars

C21_Witness ==
    /\ pc = "idle"
    /\ cycles = 3
    /\ PollenTypesFailed
    /\ Len(published) = 2
    /\ Contents(data).pollen_types = EmptyMap
    /\ published[1].contents.pollen_types = EmptyMap

(***************************************************************************)
(* C22: within a cycle the requests are issued one at a time and in order: *)
(* level definitions (if any), then pollen types (if any), then the        *)
(* forecast, each only when the one before it has completed; every cycle   *)
(* that is not cancelled issues exactly one forecast request; and a        *)
(* snapshot is published only by the step that completes the forecast      *)
(* request with success.                                                   *)
(***************************************************************************)
RequestOrder == <<"level_definitions", "pollen_types", "forecasts">>

RequestRank(resource) == CHOOSE i \in 1..Len(RequestOrder) : RequestOrder[i] = resource

AwaitedResource ==
    CASE pc = "await_ld" -> "level_definitions"
      [] pc = "await_pt" -> "pollen_types"
      [] pc = "await_fc" -> "forecasts"
      [] OTHER -> "none"

RequestsInOrder ==
    /\ \A i, j \in 1..Len(reqs) :
          i < j => RequestRank(reqs[i]) < RequestRank(reqs[j])
    /\ AwaitedResource # "none" => (reqs # <<>> /\ Last(reqs) = AwaitedResource)

C22_SequentialRequests ==
    [][/\ RequestsInOrder'
       /\ (reqs' # reqs /\ pc # "idle") =>
             /\ Len(reqs') = Len(reqs) + 1
             /\ SubSeq(reqs', 1, Len(reqs)) = reqs
             /\ pc' # pc
       /\ cycles' # cycles =>
             /\ pc = "await_fc"
             /\ reqs' = reqs
             /\ Last(reqs) = "forecasts"
       /\ (published' # published \/ data' # data) =>
             /\ pc = "await_fc"
             /\ cycles' = cycles + 1
             /\ fcOutcome' = NoExc
             /\ fcResp'.kind = "http" /\ fcResp'.status < 400]_vars

C22_Witness ==
    /\ pc = "idle"
    /\ cycles = 1
    /\ reqs = RequestOrder
    /\ Len(published) = 1
    /\ Truthy(ldHeap[_level_definitions])
    /\ Truthy(ptHeap[_pollen_types])

(***************************************************************************)
(* C23: for every pollen id with a level L in the current snapshot, the    *)
(* description both views give is the name the snapshot's level            *)
(* definitions have for L, and the unknown-level label naming L when they  *)
(* have none, an empty catalog included; it is never absent.               *)
(***************************************************************************)
ExpectedDescription(level) ==
    LET ld == Last(published).contents.level_definitions
    IN  IF level \in DOMAIN ld THEN ld[level] ELSE UnknownLevel(level)

C23_DescriptionOrFallback ==
    published # <<>> =>
        /\ \A id \in DOMAIN CurrentLevels :
              /\ PollenSensor_level_description(id) # NoDescription
              /\ PollenSensor_level_description(id) = ExpectedDescription(CurrentLevels[id])
        /\ Len(PollenForecastSensor_pollen_entries) = Cardinality(DOMAIN CurrentLevels)
        /\ \A i \in 1..Len(PollenForecastSensor_pollen_entries) :
              LET e == PollenForecastSensor_pollen_entries[i]
              IN  /\ e.description # NoDescription
                  /\ e.description = ExpectedDescription(CurrentLevels[e.type_id])

C23_Witness ==
    /\ published # <<>>
    /\ Truthy(Last(published).contents.level_definitions)
    /\ PollenSensor_level_description("p1") = "Hoga"
    /\ PollenSensor_level_description("p2") = "Okand niva: 1"
    /\ PollenSensor_level_description("p3") = NoDescription

(***************************************************************************)
(* C24.  Setup registers exactly one forecast view and exactly one         *)
(* measurement view per selected pollen-type id, and none for an id that   *)
(* is not selected (so none at all when the selection is empty), whatever  *)
(* the outcomes of the regions fetch, of the pollen-types fetch and of the *)
(* first refresh were, all three failing included.  Nothing is registered  *)
(* before the first refresh has ended.                                     *)
(***************************************************************************)
SelectedIds == {entry.pollen_types[i] : i \in 1..Len(entry.pollen_types)}

EntitiesOf(class, pollen_id) ==
    {i \in 1..Len(entities) :
        entities[i].class = class /\ entities[i].pollen_id = pollen_id}

SetupEnded == pc = "idle" /\ cycles >= 1

C24_OneViewPerSelectedId ==
    /\ cycles = 0 => entities = <<>>
    /\ SetupEnded =>
          /\ Cardinality({i \in 1..Len(entities) :
                             entities[i].class = "PollenForecastSensor"}) = 1
          /\ \A id \in SensorIds :
                Cardinality(EntitiesOf("PollenSensor", id)) =
                    IF id \in SelectedIds THEN 1 ELSE 0
          /\ Len(entities) = 1 + Cardinality(SelectedIds)

C24_Witness ==
    /\ SetupEnded
    /\ _regions_cache = EmptyMap
    /\ ~Truthy(ptHeap[_pollen_types_cache])
    /\ cycleResult = UpdateFailed
    /\ data = 0
    /\ entry.pollen_types = <<"p3", "p1">>
    /\ Len(entities) = 3

(***************************************************************************)
(* C25.  At every cycle boundary the coordinator's data and its            *)
(* _last_successful_data agree: data is None exactly when the store is the *)
(* empty dict, and otherwise both are the same snapshot (the same dict),   *)
(* after any sequence of successful and failing cycles.                    *)
(***************************************************************************)
CycleBoundary == pc = "idle"

StoreEmpty == ~DataTruthy(snapHeap[_last_successful_data])

C25_DataAgreesWithStore ==
    CycleBoundary =>
        /\ data = 0 <=> StoreEmpty
        /\ data # 0 => data = _last_successful_data

C25_Witness ==
    /\ CycleBoundary
    /\ cycles = 3
    /\ cycleResult = "returned"
    /\ fcOutcome = ClientError
    /\ Len(published) = 1
    /\ reqs = <<"level_definitions", "forecasts">>
    /\ data = _last_successful_data
    /\ data = Last(published).ref
    /\ ~StoreEmpty

(***************************************************************************)
(* sensor.py lines 209-220 and 277-288: extra_state_attributes of the two  *)
(* entity classes returns {} while the coordinator has no data, and        *)
(* otherwise has the key last_update_success with the coordinator's flag.  *)
(***************************************************************************)
NoAttribute == [present |-> FALSE, value |-> FALSE]

Attribute(value) == [present |-> TRUE, value |-> value]

PollenSensor_last_update_success ==
    IF ~HasData THEN NoAttribute ELSE Attribute(last_update_success)

PollenForecastSensor_last_update_success ==
    IF ~HasData THEN NoAttribute ELSE Attribute(last_update_success)

(***************************************************************************)
(* C26.  A failure masked by the stored snapshot cannot be seen by a       *)
(* reader: the masked cycle returns normally, so the coordinator's flag is *)
(* true after it, and the last_update_success attribute of every view is   *)
(* present and true in every state in which the coordinator has a          *)
(* snapshot, Degraded as well as Ready.                                    *)
(***************************************************************************)
Masked == CycleBoundary /\ CoordState = "Degraded"

C26_MaskedFailureInvisible ==
    /\ HasData =>
          /\ PollenSensor_last_update_success = Attribute(TRUE)
          /\ PollenForecastSensor_last_update_success = Attribute(TRUE)
    /\ Masked =>
          /\ HasData
          /\ cycleResult = "returned"
          /\ last_update_success

C26_Witness ==
    /\ Masked
    /\ fcOutcome = ApiError
    /\ fcResp.kind = "http" /\ fcResp.status >= 400
    /\ HasData
    /\ PollenSensor_last_update_success = Attribute(TRUE)
    /\ PollenForecastSensor_last_update_success = Attribute(TRUE)

(***************************************************************************)
(* C27.  A client call leaves the caches it is not about as they were:     *)
(* get_forecasts changes neither the region cache nor the pollen-type      *)
(* cache; get_regions does not change the pollen-type cache and            *)
(* get_pollen_types does not change the region cache; and a get_regions or *)
(* get_pollen_types call that raises or returns an empty mapping leaves    *)
(* both caches exactly as they were.                                       *)
(***************************************************************************)
RegionCacheKept == _regions_cache' = _regions_cache

PollenTypeCacheKept ==
    /\ _pollen_types_cache' = _pollen_types_cache
    /\ ptHeap' = ptHeap

Called(op) == calls' = calls + 1 /\ lastCall'.op = op

RaisedOrEmpty == lastCall'.exc # NoExc \/ lastCall'.ret = EmptyMap

C27_UnrelatedCachesKept ==
    [][/\ Called("get_forecasts") => RegionCacheKept /\ PollenTypeCacheKept
       /\ Called("get_regions") => PollenTypeCacheKept
       /\ Called("get_pollen_types") => RegionCacheKept
       /\ ((Called("get_regions") \/ Called("get_pollen_types")) /\ RaisedOrEmpty) =>
             RegionCacheKept /\ PollenTypeCacheKept]_vars

C27_Witness ==
    /\ calls = 3
    /\ lastCall.op = "get_pollen_types"
    /\ lastCall.requested
    /\ lastCall.exc = ApiError
    /\ Truthy(_regions_cache)
    /\ ~Truthy(ptHeap[_pollen_types_cache])
    /\ requests["forecasts"] = 1

====
